---- MODULE Spec2Model ----
(***************************************************************************)
(* Model of the fee-collector program (programs/fee-collector/src/lib.rs). *)
(*                                                                         *)
(* The program has one instruction, collect_fee(amount), over the accounts *)
(* struct CollectFee {from: Signer, to: AccountInfo, system_program}.      *)
(* An invocation runs to completion inside one runtime slot, so it is one  *)
(* action; the order of the steps inside it (account validation, the       *)
(* System-program transfer, the event emission) is kept in the `steps`     *)
(* trace of the invocation record.                                         *)
(*                                                                         *)
(* The ledger is the map `balances` (lamports per account, u64), the       *)
(* program log is `log` (the FeeCollected events emitted so far).          *)
(*                                                                         *)
(* Lamports are u64.  The model keeps the width as MaxU64, scaled down so  *)
(* that the boundary cases (insufficient funds, overflow of the credited   *)
(* balance, a transfer of the whole balance) are all within reach.         *)
(***************************************************************************)
EXTENDS Integers, Sequences, FiniteSets

\* The largest value of a lamport balance or amount (u64::MAX, scaled down).
MaxU64 == 1

\* The number of invocations a behaviour runs.
MaxInvocations == 2

\* The accounts of the ledger: any of them can be passed as `from` or `to`.
Accounts == {"payer", "treasury", "other"}

U64 == 0..MaxU64

VARIABLES
    balances,    \* [Accounts -> U64]: lamports of every account
    log,         \* Seq of FeeCollected events (the program log)
    transfers,   \* Seq of the transfers the System program has completed
    last,        \* the record of the latest invocation (inputs, pre-state, outcome)
    invocations  \* number of invocations so far

vars == <<balances, log, transfers, last, invocations>>

----------------------------------------------------------------------------
\* #[event] pub struct FeeCollected { from, to, amount }
FeeCollected(from, to, amount) == [from |-> from, to |-> to, amount |-> amount]

\* The outcomes of an invocation, in the spec's vocabulary:
\*   Unauthorized      - anchor's Signer<'info> check on `from` failed
\*   MalformedAccounts - another check of the accounts struct failed
\*                       (system_program is not the System program, or a
\*                       #[account(mut)] account is not writable)
\*   TransferFailed    - program::invoke(...) returned Err, propagated by `?`
\*   Completed         - Ok(())
Results == {"Unauthorized", "MalformedAccounts", "TransferFailed", "Completed"}

(***************************************************************************)
(* #[derive(Accounts)] struct CollectFee: the generated try_accounts takes *)
(* the fields in declaration order, so the Signer check on `from` comes    *)
(* first, then the Program<System> check on system_program, then the mut   *)
(* constraints.  isSigner is the runtime's signature-verification result   *)
(* for `from`; wellFormed says the remaining checks pass.                  *)
(***************************************************************************)
CollectFee_SignerNotChecked(isSigner, wellFormed) ==
    IF ~wellFormed THEN "MalformedAccounts" ELSE "Ok"

CollectFee_SignerCheckedLast(isSigner, wellFormed) ==
    IF ~wellFormed THEN "MalformedAccounts"
    ELSE IF ~isSigner THEN "Unauthorized"
    ELSE "Ok"

CollectFee(isSigner, wellFormed) ==
    IF ~isSigner THEN "Unauthorized"
    ELSE IF ~wellFormed THEN "MalformedAccounts"
    ELSE "Ok"

(***************************************************************************)
(* system_instruction::transfer(from, to, amount) run through              *)
(* program::invoke: the System program's transfer.  `from` must have       *)
(* signed; amount > lamports(from) is rejected; then `from` is debited     *)
(* (checked_sub) and `to` is credited (checked_add) on the debited state,  *)
(* so from = to nets to no change.  An error of the credit fails the       *)
(* instruction and the runtime discards the debit: the balances are those  *)
(* before the call.                                                        *)
(***************************************************************************)
Debit(bal, from, amount) == [bal EXCEPT ![from] = @ - amount]

Credit_Dropped(bal, to, amount) == bal

Credit(bal, to, amount) == [bal EXCEPT ![to] = @ + amount]

system_transfer_CreditFromPreState(bal, from, to, amount, fromSigned) ==
    IF ~fromSigned THEN [ok |-> FALSE, bal |-> bal]
    ELSE IF amount > bal[from] THEN [ok |-> FALSE, bal |-> bal]
    ELSE IF bal[to] + amount > MaxU64 THEN [ok |-> FALSE, bal |-> bal]
    ELSE [ok |-> TRUE,
          bal |-> [a \in DOMAIN bal |->
                     IF a = to THEN bal[a] + amount
                     ELSE IF a = from THEN bal[a] - amount
                     ELSE bal[a]]]

system_transfer_WrappingCredit(bal, from, to, amount, fromSigned) ==
    IF ~fromSigned THEN [ok |-> FALSE, bal |-> bal]
    ELSE IF amount > bal[from] THEN [ok |-> FALSE, bal |-> bal]
    ELSE LET debited == Debit(bal, from, amount)
         IN  [ok |-> TRUE,
              bal |-> [debited EXCEPT ![to] = (@ + amount) % (MaxU64 + 1)]]

system_transfer_NoRollback(bal, from, to, amount, fromSigned) ==
    IF ~fromSigned THEN [ok |-> FALSE, bal |-> bal]
    ELSE IF amount > bal[from] THEN [ok |-> FALSE, bal |-> bal]
    ELSE LET debited == Debit(bal, from, amount)
         IN  IF debited[to] + amount > MaxU64
             THEN [ok |-> FALSE, bal |-> debited]
             ELSE [ok |-> TRUE, bal |-> Credit(debited, to, amount)]

system_transfer_NoFundsCheck(bal, from, to, amount, fromSigned) ==
    IF ~fromSigned THEN [ok |-> FALSE, bal |-> bal]
    ELSE LET paid == IF amount > bal[from] THEN bal[from] ELSE amount
             debited == Debit(bal, from, paid)
         IN  IF debited[to] + paid > MaxU64
             THEN [ok |-> FALSE, bal |-> bal]
             ELSE [ok |-> TRUE, bal |-> Credit(debited, to, paid)]

system_transfer_RejectsZero(bal, from, to, amount, fromSigned) ==
    IF ~fromSigned THEN [ok |-> FALSE, bal |-> bal]
    ELSE IF amount = 0 \/ amount > bal[from] THEN [ok |-> FALSE, bal |-> bal]
    ELSE LET debited == Debit(bal, from, amount)
         IN  IF debited[to] + amount > MaxU64
             THEN [ok |-> FALSE, bal |-> bal]
             ELSE [ok |-> TRUE, bal |-> Credit(debited, to, amount)]

system_transfer_CreditsEveryone(bal, from, to, amount, fromSigned) ==
    IF ~fromSigned THEN [ok |-> FALSE, bal |-> bal]
    ELSE IF amount > bal[from] THEN [ok |-> FALSE, bal |-> bal]
    ELSE LET debited == Debit(bal, from, amount)
         IN  IF debited[to] + amount > MaxU64
             THEN [ok |-> FALSE, bal |-> bal]
             ELSE [ok |-> TRUE,
                   bal |-> [a \in DOMAIN bal |->
                              IF a = from /\ a # to THEN debited[a]
                              ELSE IF debited[a] + amount > MaxU64 THEN debited[a]
                              ELSE debited[a] + amount]]

system_transfer(bal, from, to, amount, fromSigned) ==
    IF ~fromSigned THEN [ok |-> FALSE, bal |-> bal]
    ELSE IF amount > bal[from] THEN [ok |-> FALSE, bal |-> bal]
    ELSE LET debited == Debit(bal, from, amount)
         IN  IF debited[to] + amount > MaxU64
             THEN [ok |-> FALSE, bal |-> bal]
             ELSE [ok |-> TRUE, bal |-> Credit(debited, to, amount)]

(***************************************************************************)
(* pub fn collect_fee(ctx, amount) -> Result<()>, run on the balances      *)
(* `bal`.  The value is the outcome of the invocation:                     *)
(*   result  - one of Results                                              *)
(*   bal     - the balances after the invocation                           *)
(*   events  - the events the invocation emitted                           *)
(*   done    - the transfers the System program completed                  *)
(*   steps   - the steps taken, in order                                   *)
(* Account validation precedes the handler body; the body builds the       *)
(* transfer instruction, invokes it, returns early on Err (`?`), and only  *)
(* then emits FeeCollected and returns Ok(()).                             *)
(***************************************************************************)
collect_fee_EmitBeforeInvoke(bal, from, to, amount, isSigner, wellFormed) ==
    LET checked == CollectFee(isSigner, wellFormed)
        t == system_transfer(bal, from, to, amount, isSigner)
        ev == FeeCollected(from, to, amount)
    IN  IF checked # "Ok"
        THEN [result |-> checked, bal |-> bal, events |-> <<>>,
              done |-> <<>>, steps |-> <<"try_accounts">>]
        ELSE IF ~t.ok
        THEN [result |-> "TransferFailed", bal |-> t.bal, events |-> <<ev>>,
              done |-> <<>>, steps |-> <<"try_accounts", "emit", "invoke">>]
        ELSE [result |-> "Completed", bal |-> t.bal, events |-> <<ev>>,
              done |-> <<ev>>,
              steps |-> <<"try_accounts", "emit", "invoke", "transfer_ok">>]

collect_fee(bal, from, to, amount, isSigner, wellFormed) ==
    LET checked == CollectFee(isSigner, wellFormed)
        t == system_transfer(bal, from, to, amount, isSigner)
        ev == FeeCollected(from, to, amount)
    IN  IF checked # "Ok"
        THEN [result |-> checked, bal |-> bal, events |-> <<>>,
              done |-> <<>>, steps |-> <<"try_accounts">>]
        ELSE IF ~t.ok
        THEN [result |-> "TransferFailed", bal |-> t.bal, events |-> <<>>,
              done |-> <<>>, steps |-> <<"try_accounts", "invoke">>]
        ELSE [result |-> "Completed", bal |-> t.bal, events |-> <<ev>>,
              done |-> <<ev>>,
              steps |-> <<"try_accounts", "invoke", "transfer_ok", "emit">>]

----------------------------------------------------------------------------
\* The invocation record before any invocation has run.
NoInvocation(bal) ==
    [from |-> "payer", to |-> "payer", amount |-> 0,
     isSigner |-> FALSE, wellFormed |-> FALSE,
     pre |-> bal, preLog |-> <<>>,
     result |-> "None", steps |-> <<>>]

Init ==
    /\ balances \in [Accounts -> U64]
    /\ log = <<>>
    /\ transfers = <<>>
    /\ last = NoInvocation(balances)
    /\ invocations = 0

\* One invocation of collect_fee with the given accounts, amount and
\* signature-verification result.
Invoke(from, to, amount, isSigner, wellFormed) ==
    /\ invocations < MaxInvocations
    /\ LET out == collect_fee(balances, from, to, amount, isSigner, wellFormed)
       IN  /\ balances' = out.bal
           /\ log' = log \o out.events
           /\ transfers' = transfers \o out.done
           /\ last' = [from |-> from, to |-> to, amount |-> amount,
                       isSigner |-> isSigner, wellFormed |-> wellFormed,
                       pre |-> balances, preLog |-> log,
                       result |-> out.result, steps |-> out.steps]
    /\ invocations' = invocations + 1

Next ==
    \E from \in Accounts, to \in Accounts, amount \in U64,
       isSigner \in BOOLEAN, wellFormed \in BOOLEAN :
        Invoke(from, to, amount, isSigner, wellFormed)

Spec == Init /\ [][Next]_vars

----------------------------------------------------------------------------
\* Helpers for the properties.
RECURSIVE SumOver(_, _)
SumOver(f, S) ==
    IF S = {} THEN 0
    ELSE LET a == CHOOSE x \in S : TRUE IN f[a] + SumOver(f, S \ {a})

Total(bal) == SumOver(bal, DOMAIN bal)

Count(seq, x) == Cardinality({i \in 1..Len(seq) : seq[i] = x})

Index(seq, x) == CHOOSE i \in 1..Len(seq) : seq[i] = x

Ran == last.result # "None"

LastEvent == FeeCollected(last.from, last.to, last.amount)

\* the events the latest invocation appended to the log
Emitted == SubSeq(log, Len(last.preLog) + 1, Len(log))

LogKept == Len(log) >= Len(last.preLog) /\ SubSeq(log, 1, Len(last.preLog)) = last.preLog

NoBalanceChange == balances = last.pre

NoEvent == log = last.preLog

OneEvent == LogKept /\ Emitted = <<LastEvent>>

\* the accounts are well formed and `from` has signed
Valid == Ran /\ last.isSigner /\ last.wellFormed

TypeOK ==
    /\ balances \in [Accounts -> U64]
    /\ invocations \in 0..MaxInvocations
    /\ last.result \in Results \cup {"None"}

----------------------------------------------------------------------------
(***************************************************************************)
(* C1.  As stated: for every valid invocation (well-formed accounts, a     *)
(* signed source) with balance(source) >= amount, collect_fee succeeds,    *)
(* the source ends with its pre-balance minus amount, the destination with *)
(* its pre-balance plus amount, and exactly one FeeCollected event with    *)
(* the invocation's fields has been appended to the log.                   *)
(***************************************************************************)
C1_AsStated ==
    (Valid /\ last.pre[last.from] >= last.amount) =>
        /\ last.result = "Completed"
        /\ balances[last.from] = last.pre[last.from] - last.amount
        /\ balances[last.to] = last.pre[last.to] + last.amount
        /\ OneEvent

(***************************************************************************)
(* C1, amended.  The same, for invocations whose source and destination    *)
(* are different accounts and whose credit fits in a u64                   *)
(* (pre-balance(destination) + amount <= MaxU64).                          *)
(***************************************************************************)
C1_Transfer ==
    (/\ Valid
     /\ last.pre[last.from] >= last.amount
     /\ last.from # last.to
     /\ last.pre[last.to] + last.amount <= MaxU64) =>
        /\ last.result = "Completed"
        /\ balances[last.from] = last.pre[last.from] - last.amount
        /\ balances[last.to] = last.pre[last.to] + last.amount
        /\ OneEvent

\* a transfer of a positive amount between two accounts has completed
C1_Witness ==
    /\ Valid
    /\ last.from # last.to
    /\ last.amount > 0
    /\ last.pre[last.from] >= last.amount
    /\ last.pre[last.to] + last.amount <= MaxU64
    /\ last.result = "Completed"

(***************************************************************************)
(* C2.  Every invocation whose source has not signed ends Unauthorized,    *)
(* with every balance as before the invocation and no event emitted        *)
(* (whatever the other accounts, the amount and the balances are).         *)
(***************************************************************************)
C2_Unauthorized ==
    (Ran /\ ~last.isSigner) =>
        /\ last.result = "Unauthorized"
        /\ NoBalanceChange
        /\ NoEvent

\* an unsigned invocation that would otherwise have moved lamports, also
\* with accounts that fail the later checks
C2_Witness ==
    /\ Ran
    /\ ~last.isSigner
    /\ ~last.wellFormed
    /\ last.amount > 0
    /\ last.pre[last.from] >= last.amount
    /\ Len(last.preLog) > 0

(***************************************************************************)
(* C3.  Every invocation with well-formed accounts and a signed source     *)
(* whose balance is below the amount ends TransferFailed, with the         *)
(* balances as before the invocation and no event emitted.                 *)
(***************************************************************************)
C3_InsufficientFunds ==
    (Valid /\ last.pre[last.from] < last.amount) =>
        /\ last.result = "TransferFailed"
        /\ NoBalanceChange
        /\ NoEvent

\* a signed transfer of more than the source holds, to another account
C3_Witness ==
    /\ Valid
    /\ last.pre[last.from] < last.amount
    /\ last.from # last.to
    /\ last.result = "TransferFailed"

(***************************************************************************)
(* C4.  Over any sequence of invocations, every event of the log           *)
(* corresponds to a distinct completed transfer with the same source,      *)
(* destination and amount (the i-th event to the i-th completed            *)
(* transfer); an invocation emits at most one event, and emits it only     *)
(* after its transfer has succeeded.                                       *)
(***************************************************************************)
C4_EventImpliesTransfer ==
    /\ Len(log) <= Len(transfers)
    /\ \A i \in 1..Len(log) : log[i] = transfers[i]
    /\ LogKept
    /\ Len(Emitted) <= 1
    /\ Count(last.steps, "emit") <= 1
    /\ Count(last.steps, "emit") = Len(Emitted)
    /\ Count(last.steps, "emit") = 1 =>
          /\ Count(last.steps, "transfer_ok") = 1
          /\ Index(last.steps, "transfer_ok") < Index(last.steps, "emit")

\* two completed invocations with different events, the second just emitted
C4_Witness ==
    /\ Len(log) = 2
    /\ log[1] # log[2]
    /\ Count(last.steps, "emit") = 1

(***************************************************************************)
(* C5.  An invocation with amount = 0, well-formed accounts and a signed   *)
(* source succeeds, leaves every balance unchanged and emits exactly one   *)
(* event, with amount 0.                                                   *)
(***************************************************************************)
C5_ZeroAmount ==
    (Valid /\ last.amount = 0) =>
        /\ last.result = "Completed"
        /\ balances[last.from] = last.pre[last.from]
        /\ balances[last.to] = last.pre[last.to]
        /\ OneEvent
        /\ log[Len(log)].amount = 0

\* a zero-amount invocation from an empty source has run
C5_Witness ==
    /\ Valid
    /\ last.amount = 0
    /\ last.pre[last.from] = 0
    /\ last.from # last.to
    /\ Len(log) = Len(last.preLog) + 1

(***************************************************************************)
(* C6.  The signature check comes before the transfer: an invocation with  *)
(* an unsigned source and balance(source) < amount ends Unauthorized (not  *)
(* TransferFailed), the transfer primitive is not invoked for it, and the  *)
(* account validation is the only step it takes.                           *)
(***************************************************************************)
C6_SignatureFirst ==
    (Ran /\ ~last.isSigner /\ last.pre[last.from] < last.amount) =>
        /\ last.result = "Unauthorized"
        /\ Count(last.steps, "invoke") = 0
        /\ last.steps = <<"try_accounts">>
        /\ NoBalanceChange

\* an unsigned invocation asking for more than the source holds
C6_Witness ==
    /\ Ran
    /\ ~last.isSigner
    /\ last.wellFormed
    /\ last.pre[last.from] < last.amount
    /\ last.from # last.to

(***************************************************************************)
(* C7.  A successful invocation changes the balances of its source and     *)
(* destination only: every other account keeps its balance, the set of     *)
(* accounts is the same, and the log is the log before the invocation      *)
(* with one event appended.                                                *)
(***************************************************************************)
C7_Frame ==
    (last.result = "Completed") =>
        /\ \A a \in Accounts \ {last.from, last.to} : balances[a] = last.pre[a]
        /\ DOMAIN balances = DOMAIN last.pre
        /\ DOMAIN balances = Accounts
        /\ Len(log) = Len(last.preLog) + 1
        /\ SubSeq(log, 1, Len(last.preLog)) = last.preLog

\* a successful transfer of a positive amount, with an event already in the
\* log and a bystander account that could have been credited the amount
C7_Witness ==
    /\ last.result = "Completed"
    /\ last.amount > 0
    /\ last.from # last.to
    /\ Len(last.preLog) > 0
    /\ \E a \in Accounts \ {last.from, last.to} :
          last.pre[a] + last.amount <= MaxU64

(***************************************************************************)
(* C8.  As stated: every valid invocation with balance(source) >= amount   *)
(* and pre-balance(destination) + amount above the largest u64 ends        *)
(* TransferFailed, with no balance changed and no event emitted.           *)
(***************************************************************************)
C8_AsStated ==
    (/\ Valid
     /\ last.pre[last.from] >= last.amount
     /\ last.pre[last.to] + last.amount > MaxU64) =>
        /\ last.result = "TransferFailed"
        /\ NoBalanceChange
        /\ NoEvent

(***************************************************************************)
(* C8, amended.  The same, for invocations whose source and destination    *)
(* are different accounts.                                                 *)
(***************************************************************************)
C8_CreditOverflow ==
    (/\ Valid
     /\ last.from # last.to
     /\ last.pre[last.from] >= last.amount
     /\ last.pre[last.to] + last.amount > MaxU64) =>
        /\ last.result = "TransferFailed"
        /\ NoBalanceChange
        /\ NoEvent

\* a funded transfer whose credit does not fit in the destination
C8_Witness ==
    /\ Valid
    /\ last.from # last.to
    /\ last.pre[last.from] >= last.amount
    /\ last.pre[last.to] + last.amount > MaxU64
    /\ last.result = "TransferFailed"

(***************************************************************************)
(* C9.  No invocation, successful or failed, creates or destroys           *)
(* lamports: the sum of all balances after an invocation is the sum        *)
(* before it (so it is the same in every reachable state), and every       *)
(* balance stays within 0 .. MaxU64.                                       *)
(***************************************************************************)
C9_Conservation ==
    /\ Total(balances) = Total(last.pre)
    /\ \A a \in Accounts : balances[a] \in 0..MaxU64

\* lamports have moved, in a ledger whose total is above MaxU64
C9_Witness ==
    /\ Len(log) > 0
    /\ balances # last.pre
    /\ Total(balances) > MaxU64

(***************************************************************************)
(* C10.  When source and destination are the same account, the accounts    *)
(* are well formed, the source has signed and its balance covers the       *)
(* amount, the invocation succeeds, the balance of that account is what it *)
(* was (every balance is), and exactly one event {source, source, amount}  *)
(* is emitted.                                                             *)
(***************************************************************************)
C10_SelfTransfer ==
    (Valid /\ last.from = last.to /\ last.pre[last.from] >= last.amount) =>
        /\ last.result = "Completed"
        /\ balances[last.from] = last.pre[last.from]
        /\ NoBalanceChange
        /\ OneEvent
        /\ log[Len(log)] = FeeCollected(last.from, last.from, last.amount)

\* a self-transfer of a positive amount from an account holding MaxU64
C10_Witness ==
    /\ Valid
    /\ last.from = last.to
    /\ last.amount > 0
    /\ last.pre[last.from] = MaxU64
    /\ last.result = "Completed"

====
